---- MODULE Spec2Model ----
(***************************************************************************)
(* A model of jwst_rogue_path_tool/plotting.py: the annulus filter over    *)
(* the 2MASS catalog, the projection of the susceptibility region to the   *)
(* sky, and the wedges drawn at exposure and at observation level.         *)
(*                                                                         *)
(* Units.  Angles, radii and catalog coordinates are whole degrees.        *)
(* Region vertices are stored in whole degrees; 3600 * vertex is in        *)
(* arcseconds.  tel_to_sky returns radians: the model writes a radian      *)
(* value as an integer number of milliarcseconds (1 mas = pi/648000000     *)
(* rad), and the conversion "* 180.0 / np.pi" then gives millidegrees      *)
(* (mas \div 3600).                                                        *)
(***************************************************************************)
EXTENDS Integers, Sequences, FiniteSets, TLC

VARIABLES
    catalog,                \* exposure_frames.catalog: rows [index, ra, dec, j_m]
    ra, dec,                \* the target position handed to the plot functions
    inner_radius,           \* kwargs "inner_radius"
    outer_radius,           \* kwargs "outer_radius"
    valid_starts_angles,    \* exposure_frames.valid_starts_angles, by exposure
    valid_ends_angles,      \* exposure_frames.valid_ends_angles, by exposure
    susceptibility_region,  \* exposure_frames.susceptibility_region, in key order
    attitude,               \* exposure_frames.attitude, shared by every caller
    pc,                     \* the position of the running function
    exp_n,                  \* create_exposure_plots: the exposure being drawn
    angle_k,                \* create_exposure_plots: position in the angle loop
    plotting_catalog,       \* the filtered catalog
    refiltered,             \* the filter applied to its own result
    axes_wedges,            \* per exposure, the wedges added to its axes
    projections,            \* every call of lines 99-104, in order
    n_attitude,             \* how many times calculate_attitude has run
    observation_wedges,     \* the wedges of the observation level plot
    all_starting_angles,    \* create_observation_plot, line 150
    all_ending_angles,      \* create_observation_plot, line 151
    patches,                \* what get_susceptibility_region_patch returned
    raised                  \* the exception that reached the caller

vars == << catalog, ra, dec, inner_radius, outer_radius, valid_starts_angles,
           valid_ends_angles, susceptibility_region, attitude, pc, exp_n,
           angle_k, plotting_catalog, refiltered, axes_wedges, projections,
           n_attitude, observation_wedges, all_starting_angles,
           all_ending_angles, patches, raised >>

(***************************************************************************)
(* Bounds of the model and constants of the program.                       *)
(***************************************************************************)
MaxRows == 3
MaxAngles == 4
MaxVertices == 2
MaxExposures == 2

DefaultInnerRadius == 8
DefaultOuterRadius == 12
ArcsecPerDegree == 3600
MOVETO == 1
LINETO == 2
CLOSEPOLY == 79

SeqsUpTo(S, len) == UNION { [1..m -> S] : m \in 0..len }

Min2(a, b) == IF a <= b THEN a ELSE b
Max2(a, b) == IF a >= b THEN a ELSE b
Abs(a) == IF a < 0 THEN -a ELSE a

(***************************************************************************)
(* AngularFilter: locate_targets_in_annulus.                               *)
(***************************************************************************)

\* The catalog positions of the model: points of the equator and the north
\* pole, where the great-circle separation is a whole number of degrees.
CatalogPositions ==
    { <<8, 0>>, <<10, 0>>, <<12, 0>>, <<348, 0>>, <<0, 90>> }

TargetPositions == { <<0, 0>>, <<356, 0>> }

RadiusValues == { 0, DefaultInnerRadius, DefaultOuterRadius, 90 }

\* SkyCoord.separation restricted to declinations -90, 0 and 90: along the
\* equator it is the shorter arc between the two right ascensions, a pole is
\* 90 degrees from the equator, 180 from the other pole and 0 from itself.
separation(ra1, dec1, ra2, dec2) ==
    IF dec1 = 0 /\ dec2 = 0
    THEN LET d == Abs(ra1 - ra2) % 360 IN Min2(d, 360 - d)
    ELSE IF dec1 = dec2 THEN 0
    ELSE IF dec1 = -dec2 THEN 180
    ELSE 90

\* Faulty variant: the masked rows renumbered, as by reset_index(drop=True).
locate_reset_index(cat, r, d, inner, outer) ==
    LET kept == SelectSeq(cat, LAMBDA row :
                    /\ separation(r, d, row.ra, row.dec) < outer
                    /\ separation(r, d, row.ra, row.dec) > inner)
    IN [i \in 1..Len(kept) |-> [kept[i] EXCEPT !.index = i - 1]]

\* Faulty variant: the mask with both bounds inclusive (<= and >=).
locate_inclusive(cat, r, d, inner, outer) ==
    SelectSeq(cat, LAMBDA row :
        /\ separation(r, d, row.ra, row.dec) <= outer
        /\ separation(r, d, row.ra, row.dec) >= inner)

\* Faulty variant: the mask applied one row late, row i kept when row i - 1
\* is in the annulus.
locate_shifted(cat, r, d, inner, outer) ==
    LET hit(i) == /\ i >= 1
                  /\ separation(r, d, cat[i].ra, cat[i].dec) < outer
                  /\ separation(r, d, cat[i].ra, cat[i].dec) > inner
        Pick[i \in 0..Len(cat)] ==
            IF i = 0 THEN << >>
            ELSE IF hit(i - 1) THEN Append(Pick[i - 1], cat[i])
            ELSE Pick[i - 1]
    IN Pick[Len(cat)]

locate_targets_in_annulus(cat, r, d, inner, outer) ==
    SelectSeq(cat, LAMBDA row :
        /\ separation(r, d, row.ra, row.dec) < outer
        /\ separation(r, d, row.ra, row.dec) > inner)

\* A catalog as pandas holds it: row i carries the label i - 1 of a RangeIndex
\* and a magnitude column beside its coordinates.
MakeCatalog(positions) ==
    [i \in 1..Len(positions) |->
        [index |-> i - 1, ra |-> positions[i][1], dec |-> positions[i][2],
         j_m |-> 10 + i]]

Catalogs == { MakeCatalog(p) : p \in SeqsUpTo(CatalogPositions, MaxRows) }

\* The catalog of the specifications that are not about the filter.
PlotCatalog == MakeCatalog(<< <<8, 0>>, <<10, 0>>, <<0, 90>> >>)

(***************************************************************************)
(* FrameProjector: calculate_attitude and get_susceptibility_region_patch. *)
(***************************************************************************)

NoError == "none"

\* exposure_frames before calculate_attitude has run: no attitude to read.
NoAttitude == [ra |-> 0, dec |-> 0, pa |-> -1]

MasPerMilliDegree == 3600

\* cos and sin of a position angle, in thousandths.
Cos1000(a) ==
    CASE a = 0 -> 1000 [] a = 5 -> 996 [] a = 10 -> 985 [] a = 20 -> 940
      [] a = 45 -> 707 [] a = 90 -> 0 [] a = 135 -> -707 [] a = 180 -> -1000
      [] a = 225 -> -707 [] a = 350 -> 985

Sin1000(a) ==
    CASE a = 0 -> 0 [] a = 5 -> 87 [] a = 10 -> 174 [] a = 20 -> 342
      [] a = 45 -> 707 [] a = 90 -> 1000 [] a = 135 -> 707 [] a = 180 -> 0
      [] a = 225 -> -707 [] a = 350 -> -174

\* ExposureFrames.calculate_attitude: the attitude of the aim point (r, d)
\* rolled to the position angle v3pa; a function of its arguments alone.
calculate_attitude(r, d, v3pa) == [ra |-> r, dec |-> d, pa |-> v3pa]

\* rotations.tel_to_sky on one (v2, v3) in arcseconds: the tangent plane at
\* the aim point, V3 at position angle pa from north through east.  The
\* result is in milliarcseconds.
tel_to_sky(att, v2, v3) ==
    << att.ra * ArcsecPerDegree * 1000 + v2 * Cos1000(att.pa) + v3 * Sin1000(att.pa),
       att.dec * ArcsecPerDegree * 1000 - v2 * Sin1000(att.pa) + v3 * Cos1000(att.pa) >>

\* "* 180.0 / np.pi" on a radian value held in milliarcseconds: millidegrees.
rad_to_deg(r) == r \div MasPerMilliDegree

\* Faulty variant: Path(vertices) built without the codes of the V2V3 path.
patch_without_codes(region, att) ==
    [m \in 1..Len(region) |->
        LET path == region[m].V2V3path
            v2 == [j \in 1..Len(path.vertices) |-> ArcsecPerDegree * path.vertices[j][1]]
            v3 == [j \in 1..Len(path.vertices) |-> ArcsecPerDegree * path.vertices[j][2]]
            ra_deg == [j \in 1..Len(v2) |-> rad_to_deg(tel_to_sky(att, v2[j], v3[j])[1])]
            dec_deg == [j \in 1..Len(v2) |-> rad_to_deg(tel_to_sky(att, v2[j], v3[j])[2])]
        IN [vertices |-> [j \in 1..Len(ra_deg) |-> <<ra_deg[j], dec_deg[j]>>],
            codes |-> << >>]]

\* Lines 189-212.  v2 and v3 are the two columns of the vertex array, scaled;
\* tel_to_sky works element by element; the two result columns are zipped
\* back into vertices and the codes are those of the V2V3 path.
get_susceptibility_region_patch(region, att) ==
    [m \in 1..Len(region) |->
        LET path == region[m].V2V3path
            v2 == [j \in 1..Len(path.vertices) |-> ArcsecPerDegree * path.vertices[j][1]]
            v3 == [j \in 1..Len(path.vertices) |-> ArcsecPerDegree * path.vertices[j][2]]
            ra_deg == [j \in 1..Len(v2) |-> rad_to_deg(tel_to_sky(att, v2[j], v3[j])[1])]
            dec_deg == [j \in 1..Len(v2) |-> rad_to_deg(tel_to_sky(att, v2[j], v3[j])[2])]
        IN [vertices |-> [j \in 1..Len(ra_deg) |-> <<ra_deg[j], dec_deg[j]>>],
            codes |-> path.codes]]

\* The vertices a V2V3 path is drawn from, in degrees.
VertexDomain == { <<-1, 10>>, <<1, 10>>, <<0, 11>> }

\* The codes of a path of m vertices: an open polyline or a closed polygon.
CodesFor(m) ==
    { [j \in 1..m |-> IF j = 1 THEN MOVETO ELSE LINETO],
      [j \in 1..m |-> IF j = 1 THEN MOVETO
                      ELSE IF j = m THEN CLOSEPOLY ELSE LINETO] }

V2V3Paths ==
    UNION { { [vertices |-> v, codes |-> c] : v \in [1..m -> VertexDomain], c \in CodesFor(m) }
            : m \in 1..MaxVertices }

\* A region is a dict of modules; its key order is the order of the sequence.
Regions ==
    { << [key |-> k, V2V3path |-> p] >> : k \in {"A", "B"}, p \in V2V3Paths }
    \cup { << [key |-> "A", V2V3path |-> p], [key |-> "B", V2V3path |-> q] >>
           : p \in V2V3Paths, q \in V2V3Paths }

\* The region of the specifications that are not about the projection alone.
PlotRegion ==
    << [key |-> "A",
        V2V3path |-> [vertices |-> << <<-1, 10>>, <<0, 11>> >>, codes |-> <<MOVETO, LINETO>>]],
       [key |-> "B",
        V2V3path |-> [vertices |-> << <<1, 10>> >>, codes |-> <<MOVETO>>]] >>

(***************************************************************************)
(* AngleRangeAggregator: the wedges of an exposure and of an observation.  *)
(***************************************************************************)

AngleDomain == { 10, 350 }

RECURSIVE SortedSeqOf(_)
SortedSeqOf(S) ==
    IF S = {} THEN << >>
    ELSE LET lo == CHOOSE x \in S : \A y \in S : x <= y
         IN <<lo>> \o SortedSeqOf(S \ {lo})

RECURSIVE np_concatenate(_)
np_concatenate(arrays) ==
    IF arrays = << >> THEN << >> ELSE Head(arrays) \o np_concatenate(Tail(arrays))

Range(s) == { s[i] : i \in 1..Len(s) }

RECURSIVE InsertSorted(_, _)
InsertSorted(x, s) ==
    IF s = << >> THEN <<x>>
    ELSE IF x <= Head(s) THEN <<x>> \o s
    ELSE <<Head(s)>> \o InsertSorted(x, Tail(s))

RECURSIVE SortAscending(_)
SortAscending(s) == IF s = << >> THEN << >> ELSE InsertSorted(Head(s), SortAscending(Tail(s)))

RECURSIVE FirstSeen(_, _)
FirstSeen(s, seen) ==
    IF s = << >> THEN << >>
    ELSE IF Head(s) \in seen THEN FirstSeen(Tail(s), seen)
    ELSE <<Head(s)>> \o FirstSeen(Tail(s), seen \cup {Head(s)})

\* Faulty variant: np.sort in place of np.unique, duplicates kept.
np_sort_only(a) == SortAscending(a)

\* Faulty variant: the distinct values in order of first appearance.
np_unique_unsorted(a) == FirstSeen(a, {})

\* np.unique: the distinct values, ascending.
np_unique(a) == SortedSeqOf(Range(a))

\* Faulty variant: Wedge(theta1 = start, theta2 = end), without min and max.
zip_wedges_unordered(starts, ends) ==
    [i \in 1..Min2(Len(starts), Len(ends)) |-> << starts[i], ends[i] >>]

\* for angles in zip(starts, ends): Wedge(..., min(angles), max(angles)).
\* zip stops at the shorter of the two.
zip_wedges(starts, ends) ==
    [i \in 1..Min2(Len(starts), Len(ends)) |->
        << Min2(starts[i], ends[i]), Max2(starts[i], ends[i]) >>]

\* The two observations the specification names.
WrapFixture == [starts |-> << <<10, 350>> >>, ends |-> << <<20, 5>> >>]
PairingFixture ==
    [starts |-> << <<0, 90>>, <<90, 180>> >>, ends |-> << <<45, 135>>, <<135, 225>> >>]

Fixtures == { WrapFixture, PairingFixture }

\* The shape of the angle tables of cnt exposures: for each exposure how many
\* start and how many end angles it has, which need not be equally many, with
\* at most MaxAngles angles in the whole observation.
RECURSIVE ShapeSum(_, _)
ShapeSum(shape, upto) ==
    IF upto = 0 THEN 0
    ELSE ShapeSum(shape, upto - 1) + shape[upto][1] + shape[upto][2]

Shapes(cnt) ==
    { shape \in [1..cnt -> (0..MaxAngles) \X (0..MaxAngles)] :
        ShapeSum(shape, cnt) <= MaxAngles }

\* The tables of that shape holding the angles of flat, in order.
TablesOf(shape, flat) ==
    [starts |-> [e \in 1..Len(shape) |->
                    SubSeq(flat, ShapeSum(shape, e - 1) + 1,
                                 ShapeSum(shape, e - 1) + shape[e][1])],
     ends |-> [e \in 1..Len(shape) |->
                    SubSeq(flat, ShapeSum(shape, e - 1) + shape[e][1] + 1,
                                 ShapeSum(shape, e))]]

(***************************************************************************)
(* The state before a plotting function is called: the observation as the  *)
(* upstream code built it, and nothing drawn yet.                          *)
(***************************************************************************)
Setup(cat, target, inner, outer, angles, region, att) ==
    /\ catalog = cat
    /\ ra = target[1]
    /\ dec = target[2]
    /\ inner_radius = inner
    /\ outer_radius = outer
    /\ valid_starts_angles = angles.starts
    /\ valid_ends_angles = angles.ends
    /\ susceptibility_region = region
    /\ attitude = att
    /\ pc = "start"
    /\ exp_n = 0
    /\ angle_k = 0
    /\ plotting_catalog = << >>
    /\ refiltered = << >>
    /\ axes_wedges = << >>
    /\ projections = << >>
    /\ n_attitude = 0
    /\ observation_wedges = << >>
    /\ all_starting_angles = << >>
    /\ all_ending_angles = << >>
    /\ patches = << >>
    /\ raised = NoError

NoAngles == [starts |-> << >>, ends |-> << >>]

inputs == << catalog, ra, dec, inner_radius, outer_radius, valid_starts_angles,
             valid_ends_angles, susceptibility_region >>

(***************************************************************************)
(* SpecFilter: locate_targets_in_annulus on every catalog, target and pair *)
(* of radii of the model, and then on its own result.                      *)
(***************************************************************************)
InitFilter ==
    \E cat \in Catalogs, target \in TargetPositions,
       inner \in RadiusValues, outer \in RadiusValues :
        Setup(cat, target, inner, outer, NoAngles, << >>, NoAttitude)

LocateTargets ==
    /\ pc = "start"
    /\ plotting_catalog' =
           locate_targets_in_annulus(catalog, ra, dec, inner_radius, outer_radius)
    /\ pc' = "located"
    /\ UNCHANGED << inputs, attitude, exp_n, angle_k, refiltered, axes_wedges,
                    projections, n_attitude, observation_wedges,
                    all_starting_angles, all_ending_angles, patches, raised >>

LocateAgain ==
    /\ pc = "located"
    /\ refiltered' =
           locate_targets_in_annulus(plotting_catalog, ra, dec, inner_radius, outer_radius)
    /\ pc' = "relocated"
    /\ UNCHANGED << inputs, attitude, exp_n, angle_k, plotting_catalog, axes_wedges,
                    projections, n_attitude, observation_wedges,
                    all_starting_angles, all_ending_angles, patches, raised >>

NextFilter == LocateTargets \/ LocateAgain

SpecFilter == InitFilter /\ [][NextFilter]_vars

(***************************************************************************)
(* SpecPatch: get_susceptibility_region_patch on every region of the       *)
(* model, under the attitude its caller last computed.                     *)
(***************************************************************************)
PatchAngles == { 0, 90, 350 }

InitPatch ==
    \E region \in Regions, target \in TargetPositions :
        Setup(<< >>, target, DefaultInnerRadius, DefaultOuterRadius, NoAngles, region, NoAttitude)

SetAttitude ==
    /\ pc \in {"start", "patched"}
    /\ \E angle \in PatchAngles : attitude' = calculate_attitude(ra, dec, angle)
    /\ pc' = "start"
    /\ UNCHANGED << inputs, exp_n, angle_k, plotting_catalog, refiltered,
                    axes_wedges, projections, n_attitude, observation_wedges,
                    all_starting_angles, all_ending_angles, patches, raised >>

GetPatch ==
    /\ pc \in {"start", "patched"}
    /\ attitude # NoAttitude
    /\ patches' = get_susceptibility_region_patch(susceptibility_region, attitude)
    /\ pc' = "patched"
    /\ UNCHANGED << inputs, attitude, exp_n, angle_k, plotting_catalog, refiltered,
                    axes_wedges, projections, n_attitude, observation_wedges,
                    all_starting_angles, all_ending_angles, raised >>

NextPatch == SetAttitude \/ GetPatch

SpecPatch == InitPatch /\ [][NextPatch]_vars

(***************************************************************************)
(* SpecExposure: create_exposure_plots, one step per statement that reads  *)
(* or writes the shared attitude.                                          *)
(***************************************************************************)
InitExposure ==
    \E att \in {NoAttitude, calculate_attitude(0, 0, 350)} :
        \/ \E cnt \in 1..MaxExposures :
              \E shape \in Shapes(cnt) :
                \E flat \in [1..ShapeSum(shape, cnt) -> AngleDomain] :
                    Setup(PlotCatalog, <<0, 0>>, DefaultInnerRadius, DefaultOuterRadius,
                          TablesOf(shape, flat), PlotRegion, att)
        \/ \E angles \in Fixtures :
                Setup(PlotCatalog, <<0, 0>>, DefaultInnerRadius, DefaultOuterRadius,
                      angles, PlotRegion, att)

\* exposure_frames.data: the exposures, in order.
exposure_frames_data == 1..Len(valid_starts_angles)

\* np.concatenate([angle_start, angle_end]) of the exposure being drawn.
LoopAngles(e) == np_concatenate(<< valid_starts_angles[e], valid_ends_angles[e] >>)

\* Lines 48-65: the filtered catalog, before the loop over the exposures.
ExposureStart ==
    /\ pc = "start"
    /\ plotting_catalog' =
           locate_targets_in_annulus(catalog, ra, dec, inner_radius, outer_radius)
    /\ exp_n' = 1
    /\ pc' = IF exposure_frames_data = {} THEN "done" ELSE "wedges"
    /\ UNCHANGED << inputs, attitude, angle_k, refiltered, axes_wedges, projections,
                    n_attitude, observation_wedges, all_starting_angles,
                    all_ending_angles, patches, raised >>

\* Where the loop goes after the angle at position j of exposure e.
AfterAngle(e, j) ==
    IF j < Len(LoopAngles(e)) THEN "attitude"
    ELSE IF e < Len(valid_starts_angles) THEN "wedges"
    ELSE "done"

\* Lines 67-96: the axes of exposure exp_n and one wedge per zipped pair.
DrawWedges ==
    /\ pc = "wedges"
    /\ axes_wedges' = Append(axes_wedges,
           zip_wedges(valid_starts_angles[exp_n], valid_ends_angles[exp_n]))
    /\ angle_k' = 1
    /\ pc' = AfterAngle(exp_n, 0)
    /\ exp_n' = IF AfterAngle(exp_n, 0) = "wedges" THEN exp_n + 1 ELSE exp_n
    /\ UNCHANGED << inputs, attitude, plotting_catalog, refiltered, projections,
                    n_attitude, observation_wedges, all_starting_angles,
                    all_ending_angles, patches, raised >>

\* Faulty variant: the attitude computed once per exposure, for its first
\* angle only.
CalculateAttitudeOnce ==
    /\ pc = "attitude"
    /\ attitude' = IF angle_k = 1
                   THEN calculate_attitude(ra, dec, LoopAngles(exp_n)[angle_k])
                   ELSE attitude
    /\ n_attitude' = IF angle_k = 1 THEN n_attitude + 1 ELSE n_attitude
    /\ pc' = "project"
    /\ UNCHANGED << inputs, exp_n, angle_k, plotting_catalog, refiltered, axes_wedges,
                    projections, observation_wedges, all_starting_angles,
                    all_ending_angles, patches, raised >>

\* Faulty variant: calculate_attitude skipped when the attitude held is
\* already that of the angle.
CalculateAttitudeCached ==
    /\ pc = "attitude"
    /\ attitude' = calculate_attitude(ra, dec, LoopAngles(exp_n)[angle_k])
    /\ n_attitude' = IF attitude = calculate_attitude(ra, dec, LoopAngles(exp_n)[angle_k])
                     THEN n_attitude ELSE n_attitude + 1
    /\ pc' = "project"
    /\ UNCHANGED << inputs, exp_n, angle_k, plotting_catalog, refiltered, axes_wedges,
                    projections, observation_wedges, all_starting_angles,
                    all_ending_angles, patches, raised >>

\* Line 99: exposure_frames.calculate_attitude(angle).
CalculateAttitude ==
    /\ pc = "attitude"
    /\ attitude' = calculate_attitude(ra, dec, LoopAngles(exp_n)[angle_k])
    /\ n_attitude' = n_attitude + 1
    /\ pc' = "project"
    /\ UNCHANGED << inputs, exp_n, angle_k, plotting_catalog, refiltered, axes_wedges,
                    projections, observation_wedges, all_starting_angles,
                    all_ending_angles, patches, raised >>

\* Lines 100-104: the region projected under the attitude exposure_frames
\* holds, and its patches added to the axes of exposure exp_n.  The entry
\* also records the attitude that was read and how many times
\* calculate_attitude had run by then.
ProjectRegion ==
    /\ pc = "project"
    /\ projections' = Append(projections,
           [exp_num |-> exp_n,
            angle |-> LoopAngles(exp_n)[angle_k],
            attitude |-> attitude,
            n_attitude |-> n_attitude,
            patches |-> get_susceptibility_region_patch(susceptibility_region, attitude)])
    /\ pc' = AfterAngle(exp_n, angle_k)
    /\ angle_k' = angle_k + 1
    /\ exp_n' = IF AfterAngle(exp_n, angle_k) = "wedges" THEN exp_n + 1 ELSE exp_n
    /\ UNCHANGED << inputs, attitude, plotting_catalog, refiltered, axes_wedges,
                    n_attitude, observation_wedges, all_starting_angles,
                    all_ending_angles, patches, raised >>

NextExposure == ExposureStart \/ DrawWedges \/ CalculateAttitude \/ ProjectRegion

SpecExposure == InitExposure /\ [][NextExposure]_vars

(***************************************************************************)
(* SpecObservation: create_observation_plot.                               *)
(***************************************************************************)
InitObservation ==
    \/ \E cnt \in 1..MaxExposures :
          \E shape \in Shapes(cnt) :
            \E flat \in [1..ShapeSum(shape, cnt) -> AngleDomain] :
                Setup(PlotCatalog, <<0, 0>>, DefaultInnerRadius, DefaultOuterRadius,
                      TablesOf(shape, flat), PlotRegion, NoAttitude)
    \/ \E angles \in Fixtures :
            Setup(PlotCatalog, <<0, 0>>, DefaultInnerRadius, DefaultOuterRadius,
                  angles, PlotRegion, NoAttitude)

\* Lines 126-177.  np.concatenate needs at least one exposure.
ObservationPlot ==
    /\ pc = "start"
    /\ exposure_frames_data # {}
    /\ plotting_catalog' =
           locate_targets_in_annulus(catalog, ra, dec, inner_radius, outer_radius)
    /\ all_starting_angles' = np_unique(np_concatenate(valid_starts_angles))
    /\ all_ending_angles' = np_unique(np_concatenate(valid_ends_angles))
    /\ observation_wedges' = zip_wedges(np_unique(np_concatenate(valid_starts_angles)),
                                        np_unique(np_concatenate(valid_ends_angles)))
    /\ pc' = "done"
    /\ UNCHANGED << inputs, attitude, exp_n, angle_k, refiltered, axes_wedges,
                    projections, n_attitude, patches, raised >>

NextObservation == ObservationPlot

SpecObservation == InitObservation /\ [][NextObservation]_vars

(***************************************************************************)
(* Properties.                                                             *)
(***************************************************************************)

SeparationOf(row) == separation(ra, dec, row.ra, row.dec)

\* C1: once the filter has run, every returned row has its separation from
\* the target strictly between inner_radius and outer_radius, every catalog
\* row that was not returned has a separation <= inner_radius or >=
\* outer_radius, and a row exactly at either radius is not returned.
C1_AnnulusPartition ==
    pc # "start" =>
        /\ \A i \in 1..Len(plotting_catalog) :
              /\ inner_radius < SeparationOf(plotting_catalog[i])
              /\ SeparationOf(plotting_catalog[i]) < outer_radius
        /\ \A j \in 1..Len(catalog) :
              catalog[j] \notin Range(plotting_catalog) =>
                  \/ SeparationOf(catalog[j]) <= inner_radius
                  \/ SeparationOf(catalog[j]) >= outer_radius
        /\ \A j \in 1..Len(catalog) :
              SeparationOf(catalog[j]) \in {inner_radius, outer_radius} =>
                  catalog[j] \notin Range(plotting_catalog)

\* A catalog with a row inside the annulus, a row exactly at the inner radius
\* and a row exactly at the outer radius, filtered.
C1_Witness ==
    /\ pc = "located"
    /\ inner_radius < outer_radius
    /\ Len(plotting_catalog) >= 1
    /\ \E j \in 1..Len(catalog) : SeparationOf(catalog[j]) = inner_radius
    /\ \E j \in 1..Len(catalog) : SeparationOf(catalog[j]) = outer_radius

C2_SubSequence ==
    pc # "start" =>
        /\ \A i \in 1..Len(plotting_catalog) :
              /\ plotting_catalog[i].index + 1 \in 1..Len(catalog)
              /\ plotting_catalog[i] = catalog[plotting_catalog[i].index + 1]
        /\ \A i, j \in 1..Len(plotting_catalog) :
              i < j => plotting_catalog[i].index < plotting_catalog[j].index

\* C2: the filtered catalog is a sub-sequence of the input catalog: every
\* returned row is the input row of the same index with all its fields, the
\* indices of the returned rows increase strictly (the original order, no row
\* twice), and no step changes the input catalog.
C2_ResultIsSubSequence ==
    /\ []C2_SubSequence
    /\ [][catalog' = catalog]_vars

\* Two rows kept out of three, the first row of the catalog dropped.
C2_Witness ==
    /\ pc = "located"
    /\ Len(catalog) = 3
    /\ Len(plotting_catalog) = 2
    /\ plotting_catalog[1].index = 1

\* C9: the filter applied, with the same target and radii, to its own result
\* returns that result.
C9_Idempotent ==
    pc = "relocated" => refiltered = plotting_catalog

\* The filter applied twice to a catalog of which it keeps some rows and
\* drops others.
C9_Witness ==
    /\ pc = "relocated"
    /\ Len(plotting_catalog) >= 1
    /\ Len(plotting_catalog) < Len(catalog)
    /\ refiltered = plotting_catalog

\* C3: the wedges on the axes of an exposure are, pair by pair and in pair
\* order, (min, max) of the zipped start and end angle, one wedge per pair and
\* nothing merged or split; starts [10, 350] and ends [20, 5] give
\* [(10, 20), (5, 350)].
C3_ExposureWedges ==
    /\ \A e \in 1..Len(axes_wedges) :
          LET starts == valid_starts_angles[e]
              ends == valid_ends_angles[e]
              wedges == axes_wedges[e]
          IN /\ Len(wedges) = Min2(Len(starts), Len(ends))
             /\ \A i \in 1..Len(wedges) :
                   /\ wedges[i][1] <= wedges[i][2]
                   /\ { wedges[i][1], wedges[i][2] } = { starts[i], ends[i] }
    /\ ( /\ valid_starts_angles = WrapFixture.starts
         /\ valid_ends_angles = WrapFixture.ends
         /\ Len(axes_wedges) >= 1 )
       => axes_wedges[1] = << <<10, 20>>, <<5, 350>> >>

\* The exposure with starts [10, 350] and ends [20, 5], drawn.
C3_Witness ==
    /\ pc = "done"
    /\ valid_starts_angles = << <<10, 350>> >>
    /\ valid_ends_angles = << <<20, 5>> >>
    /\ axes_wedges = << << <<10, 20>>, <<5, 350>> >> >>

PairingFixtureDrawn ==
    /\ pc = "done"
    /\ valid_starts_angles = PairingFixture.starts
    /\ valid_ends_angles = PairingFixture.ends

\* C4 as stated: for starts [0, 90] / [90, 180] and ends [45, 135] /
\* [135, 225] the unique starts are {0, 90}, the unique ends {45, 135, 225},
\* and the two sets differ in size.
C4_AsStated ==
    PairingFixtureDrawn =>
        /\ Range(all_starting_angles) = {0, 90}
        /\ Range(all_ending_angles) = {45, 135, 225}
        /\ Len(all_starting_angles) # Len(all_ending_angles)

\* C4, amended: for those two exposures the unique starts are [0, 90, 180]
\* and the unique ends [45, 135, 225]: the two have the same size, three.
C4_UniqueSetsOfFixture ==
    PairingFixtureDrawn =>
        /\ all_starting_angles = <<0, 90, 180>>
        /\ all_ending_angles = <<45, 135, 225>>
        /\ Len(all_starting_angles) = Len(all_ending_angles)

\* The observation plot of those two exposures, with its three wedges.
C4_Witness ==
    /\ PairingFixtureDrawn
    /\ observation_wedges = << <<0, 45>>, <<90, 135>>, <<180, 225>> >>

StrictlyIncreasing(s) == \A i, j \in 1..Len(s) : i < j => s[i] < s[j]

AllAngles(table) == UNION { Range(table[e]) : e \in 1..Len(table) }

\* C5: at observation level the unique starts are the start angles of all
\* exposures, each once, ascending, and likewise the unique ends; there are
\* min(|unique starts|, |unique ends|) wedges, and wedge k is (min, max) of
\* the k-th unique start and the k-th unique end.
C5_ObservationWedges ==
    pc = "done" =>
        /\ StrictlyIncreasing(all_starting_angles)
        /\ StrictlyIncreasing(all_ending_angles)
        /\ Range(all_starting_angles) = AllAngles(valid_starts_angles)
        /\ Range(all_ending_angles) = AllAngles(valid_ends_angles)
        /\ Len(observation_wedges) =
               Min2(Len(all_starting_angles), Len(all_ending_angles))
        /\ \A w \in 1..Len(observation_wedges) :
              /\ observation_wedges[w][1] <= observation_wedges[w][2]
              /\ { observation_wedges[w][1], observation_wedges[w][2] } =
                     { all_starting_angles[w], all_ending_angles[w] }

PairedInSomeExposure(start, end) ==
    \E e \in 1..Len(valid_starts_angles) :
        \E i \in 1..Min2(Len(valid_starts_angles[e]), Len(valid_ends_angles[e])) :
            valid_starts_angles[e][i] = start /\ valid_ends_angles[e][i] = end

\* An observation plot with a wedge whose start and end were paired in no
\* exposure, and with a start angle that two exposures share.
C5_Witness ==
    /\ pc = "done"
    /\ \E w \in 1..Len(observation_wedges) :
          ~ PairedInSomeExposure(all_starting_angles[w], all_ending_angles[w])
    /\ Len(all_starting_angles) < Len(np_concatenate(valid_starts_angles))
    /\ Len(all_starting_angles) # Len(all_ending_angles)

\* C6: an exposure whose start and end angles differ in number makes the
\* drawing fail with MismatchedAngleArraysError, and no wedges are drawn from
\* the truncated pairing.
C6_MismatchIsReported ==
    \A e \in 1..Len(axes_wedges) :
        Len(valid_starts_angles[e]) # Len(valid_ends_angles[e]) =>
            /\ raised = "MismatchedAngleArraysError"
            /\ axes_wedges[e] = << >>

SkyVertex(att, vertex) ==
    LET sky == tel_to_sky(att, 3600 * vertex[1], 3600 * vertex[2])
    IN << rad_to_deg(sky[1]), rad_to_deg(sky[2]) >>

C7_SameTopology ==
    pc = "patched" =>
        /\ Len(patches) = Len(susceptibility_region)
        /\ \A m \in 1..Len(patches) :
              LET path == susceptibility_region[m].V2V3path
              IN /\ Len(patches[m].vertices) = Len(path.vertices)
                 /\ patches[m].codes = path.codes
                 /\ \A j \in 1..Len(path.vertices) :
                       patches[m].vertices[j] = SkyVertex(attitude, path.vertices[j])

\* C7: the patches are one per module of the region, in key order; patch m
\* has as many vertices as the V2V3 path of module m, the same codes, and its
\* vertex j is the sky position of vertex j of that path scaled by 3600; no
\* step changes the stored region.
C7_PatchKeepsTopology ==
    /\ []C7_SameTopology
    /\ [][susceptibility_region' = susceptibility_region]_vars

\* A region of two modules whose paths differ in length and in codes,
\* projected at a position angle that moves its vertices.
C7_Witness ==
    /\ pc = "patched"
    /\ Len(patches) = 2
    /\ Len(patches[1].vertices) # Len(patches[2].vertices)
    /\ patches[1].codes # patches[2].codes
    /\ attitude.pa = 90
    /\ patches[2].vertices[2] # susceptibility_region[2].V2V3path.vertices[2]

\* C8: two projections made for the same angle gave the same patches,
\* whatever was projected between them.
C8_SameAngleSamePatches ==
    \A i, j \in 1..Len(projections) :
        projections[i].angle = projections[j].angle =>
            projections[i].patches = projections[j].patches

\* An angle projected, another angle projected with other patches, and the
\* first angle projected again.
C8_Witness ==
    \E i, m, j \in 1..Len(projections) :
        /\ i < m /\ m < j
        /\ projections[i].angle = projections[j].angle
        /\ projections[m].angle # projections[i].angle
        /\ projections[m].patches # projections[i].patches
        /\ projections[j].patches = projections[i].patches

ProjectedAngles(e) ==
    LET of_e == SelectSeq(projections, LAMBDA p : p.exp_num = e)
    IN [i \in 1..Len(of_e) |-> of_e[i].angle]

\* C10: every projection read the attitude of its own angle, computed by a
\* run of calculate_attitude of its own (the i-th projection follows the i-th
\* computation, so a repeated angle is computed again); between a computation
\* and its projection the attitude is the one just computed; and the angles
\* projected for an exposure are its start angles followed by its end angles.
C10_AttitudeFreshAtProjection ==
    /\ \A i \in 1..Len(projections) :
          /\ projections[i].attitude = calculate_attitude(ra, dec, projections[i].angle)
          /\ projections[i].n_attitude = i
    /\ pc = "project" =>
          /\ attitude = calculate_attitude(ra, dec, LoopAngles(exp_n)[angle_k])
          /\ n_attitude = Len(projections) + 1
    /\ pc # "project" => n_attitude = Len(projections)
    /\ pc = "done" =>
          \A e \in 1..Len(valid_starts_angles) : ProjectedAngles(e) = LoopAngles(e)

\* A finished run that projected the same angle twice in one exposure, each
\* time after a computation of its own, and went on to a second exposure.
C10_Witness ==
    /\ pc = "done"
    /\ Len(valid_starts_angles) = 2
    /\ \E i, j \in 1..Len(projections) :
          /\ i < j
          /\ projections[i].exp_num = projections[j].exp_num
          /\ projections[i].angle = projections[j].angle
          /\ projections[i].n_attitude < projections[j].n_attitude
    /\ \E i \in 1..Len(projections) : projections[i].exp_num = 2

====
